---------------------------- MODULE Spec2Model ----------------------------
(***************************************************************************)
(* coherent_rates/system.py: periodic system configuration, Bloch          *)
(* Hamiltonian compilation, Schrodinger propagation, the intermediate      *)
(* scattering function (ISF), Boltzmann states and the Monte-Carlo         *)
(* average of the ISF.                                                     *)
(*                                                                         *)
(* Number representation (exact, no floating point):                       *)
(*   - a complex amplitude is a Gaussian integer [re, im];                 *)
(*   - a phase exp(i*theta) is kept for theta a multiple of pi/2, as the   *)
(*     index p in 0..3 of i^p; time is counted in units for which          *)
(*     E*t/hbar is a multiple of pi/2;                                     *)
(*   - a state vector {basis, data} carries norm2: its amplitudes are      *)
(*     data[i]/sqrt(norm2).  norm2 = 0 is the result of a division by a    *)
(*     zero (or non-finite) normalization: every amplitude is NaN;         *)
(*   - an ISF value is a complex rational [re, im, den]; den = 0 is a      *)
(*     non-finite value (NaN or inf), as numpy produces for x / 0.         *)
(*                                                                         *)
(* The functions of surface_potential_analysis are represented by their    *)
(* contracts, on Hamiltonians that are diagonal on the points on which     *)
(* the periodic-x operator acts as a cyclic shift: the eigenvectors are    *)
(* unit vectors, found by sorting the diagonal.                            *)
(***************************************************************************)
EXTENDS Integers, Sequences, FiniteSets

\* ------------------------------------------------------------------ bounds
MaxShape == 2
MaxResolution == 3
MaxEnergy == 2
MaxTimes == 3
MaxN == 2
MaxSampleDim == 2

\* Phases are multiples of pi/2: i^0, i^1, i^2, i^3.
Phases == 0..3

\* ------------------------------------------------------- complex arithmetic
C(re, im) == [re |-> re, im |-> im]
CZero == C(0, 0)
COne == C(1, 0)
CAdd(a, b) == C(a.re + b.re, a.im + b.im)
CMul(a, b) == C(a.re * b.re - a.im * b.im, a.re * b.im + a.im * b.re)
CConj(a) == C(a.re, 0 - a.im)
CAbs2(a) == a.re * a.re + a.im * a.im

\* i^p
CPhase(p) ==
    CASE p % 4 = 0 -> C(1, 0)
      [] p % 4 = 1 -> C(0, 1)
      [] p % 4 = 2 -> C(-1, 0)
      [] OTHER     -> C(0, -1)

RECURSIVE Pow(_, _)
Pow(b, e) == IF e = 0 THEN 1 ELSE b * Pow(b, e - 1)

RECURSIVE SumSeq(_)
SumSeq(s) == IF s = <<>> THEN 0 ELSE Head(s) + SumSeq(Tail(s))

\* The sequence f[1], ..., f[n], evaluated once.
RECURSIVE Tuple(_, _)
Tuple(f, n) == IF n = 0 THEN <<>> ELSE Append(Tuple(f, n - 1), f[n])

RECURSIVE CSumSeq(_)
CSumSeq(s) == IF s = <<>> THEN CZero ELSE CAdd(Head(s), CSumSeq(Tail(s)))

\* ------------------------------------------------------------ configuration
NoConfig == [shape |-> -1, resolution |-> -1, n_bands |-> -1]

\* @dataclass PeriodicSystemConfig: the generated __init__ stores the three
\* fields as given; there is no __post_init__ and no check.
PeriodicSystemConfig(shape, resolution, n_bands) ==
    [shape |-> shape, resolution |-> resolution, n_bands |-> n_bands]

\* The configurations the numerical library is defined on.
ValidConfig(c) ==
    /\ c.shape >= 1
    /\ c.resolution >= 1
    /\ c.n_bands >= 1
    /\ c.n_bands <= c.resolution

\* PeriodicSystem: the model keeps the barrier energy, which selects the
\* single-cell Hamiltonian.
Systems == [barrier_energy : {0, 1}]

\* ------------------------------------------------------------------- bases
\* A basis descriptor.  The fundamental basis of n points, or an explicit
\* basis whose k-th vector is the unit vector at point vectors[k] of the
\* fundamental basis of n points.
FundamentalBasis(n) == [kind |-> "fundamental", n |-> n, vectors |-> <<>>]
ExplicitBasis(n, vectors) == [kind |-> "explicit", n |-> n, vectors |-> vectors]
BasisSize(basis) ==
    IF basis.kind = "fundamental" THEN basis.n ELSE Len(basis.vectors)

StateVector(basis, data, norm2) ==
    [basis |-> basis, data |-> data, norm2 |-> norm2]

\* The data of a state in the fundamental basis of its explicit basis.
AsFundamentalData(state) ==
    IF state.basis.kind = "fundamental" THEN state.data
    ELSE Tuple([x \in 1..state.basis.n |->
                  CSumSeq([k \in 1..Len(state.data) |->
                             IF state.basis.vectors[k] = x
                             THEN state.data[k] ELSE CZero])],
               state.basis.n)

\* convert_state_vector_to_basis: the components of the state along the
\* vectors of the target basis.
convert_state_vector_to_basis(state, basis) ==
    IF state.basis = basis THEN state
    ELSE LET fund == AsFundamentalData(state)
         IN  StateVector(basis,
                 IF basis.kind = "fundamental" THEN fund
                 ELSE Tuple([k \in 1..Len(basis.vectors) |-> fund[basis.vectors[k]]],
                            Len(basis.vectors)),
                 state.norm2)

\* ------------------------------------------------------------- Hamiltonian
\* EvenlySpacedBasis(n, step, offset): the indices offset + step * i.
EvenlySpacedBasis(n, step, offset) ==
    Tuple([i \in 1..n |-> offset + step * (i - 1)], n)

\* total_surface_hamiltonian, in the basis that diagonalizes it: a real
\* diagonal of n entries.  Entry r holds the kinetic energy of momentum
\* r - 1 + bloch_fraction plus the barrier term of the potential, folded
\* into 0..MaxEnergy.  bloch is the fraction [num, den].
total_surface_hamiltonian(barrier_energy, n, bloch) ==
    Tuple([r \in 1..n |->
             ( ((r - 1) * bloch.den + bloch.num) * ((r - 1) * bloch.den + bloch.num)
               + barrier_energy * (IF (r - 1) % 3 = 0 THEN 2 ELSE 5) )
             % (MaxEnergy + 1)],
          n)

\* _get_full_hamiltonian(system, shape, resolution, bloch_fraction=...): the
\* Hamiltonian on the shape * resolution points of the extended potential.
_get_full_hamiltonian(system, shape, resolution, bloch_fraction) ==
    [shape |-> shape,
     resolution |-> resolution,
     bloch_fraction |-> bloch_fraction,
     data |-> total_surface_hamiltonian(system.barrier_energy,
                                        shape * resolution, bloch_fraction)]

\* Stable ascending argsort: the Hermitian eigen-decomposition of a diagonal
\* matrix.  ArgSort(d)[b] is the point of the b-th lowest eigenvalue.
Rank(d, i) ==
    1 + Cardinality({j \in 1..Len(d) : d[j] < d[i] \/ (d[j] = d[i] /\ j < i)})
ArgSort(d) ==
    Tuple([b \in 1..Len(d) |-> CHOOSE i \in 1..Len(d) : Rank(d, i) = b], Len(d))

\* Variant of hamiltonian_generator: the configured shape in place of (1,).
hamiltonian_generator_config_shape(system, config, bloch_fraction) ==
    _get_full_hamiltonian(system, config.shape, config.resolution, bloch_fraction)

\* hamiltonian_generator, the closure of _get_bloch_wavefunctions over
\* (system, config): always one cell, at the configured resolution.
hamiltonian_generator(system, config, bloch_fraction) ==
    _get_full_hamiltonian(system, 1, config.resolution, bloch_fraction)

\* generate_wavepacket(hamiltonian_generator, save_bands, list_basis), with
\* the generator given by the (system, config) it closes over: one
\* diagonalization per Bloch fraction j / list_n, j = 0 .. list_n - 1; of
\* each it keeps the bands of save_bands (0-based).  Band-major order:
\* entry band * list_n + j.  generated lists the Hamiltonians the generator
\* returned; vectors gives, for each kept eigenvector, its point among the
\* points of the list_n cells.
generate_wavepacket(system, config, save_bands, list_n) ==
    LET generated ==
            Tuple([j \in 1..list_n |->
                     hamiltonian_generator(system, config,
                                           [num |-> j - 1, den |-> list_n])],
                  list_n)
        order == Tuple([j \in 1..list_n |-> ArgSort(generated[j].data)], list_n)
        nb == Len(save_bands)
        band(k) == save_bands[((k - 1) \div list_n) + 1] + 1
        point(k) == ((k - 1) % list_n) + 1
    IN  [generated |-> generated,
         eigenvalue |-> Tuple([k \in 1..(nb * list_n) |->
                                 generated[point(k)].data[order[point(k)][band(k)]]],
                              nb * list_n),
         n |-> SumSeq([j \in 1..list_n |-> Len(generated[j].data)]),
         vectors |-> Tuple([k \in 1..(nb * list_n) |->
                              (point(k) - 1) * Len(generated[point(k)].data)
                                + order[point(k)][band(k)]],
                           nb * list_n)]

\* save_bands=EvenlySpacedBasis(config.n_bands, 1, 0)
save_bands(config) == EvenlySpacedBasis(config.n_bands, 1, 0)

\* list_basis=fundamental_stacked_basis_from_shape(config.shape)
list_basis(config) == config.shape

_get_bloch_wavefunctions(system, config) ==
    generate_wavepacket(system, config, save_bands(config), list_basis(config))

\* get_full_bloch_hamiltonian: the diagonal operator on the explicit basis of
\* the wavefunctions.
get_full_bloch_hamiltonian(wavefunctions) ==
    [basis |-> ExplicitBasis(wavefunctions.n, wavefunctions.vectors),
     data |-> wavefunctions.eigenvalue,
     generated |-> wavefunctions.generated]

get_hamiltonian(system, config) ==
    get_full_bloch_hamiltonian(_get_bloch_wavefunctions(system, config))

\* -------------------------------------------------------------- propagator
\* exp(-i * E * t / hbar), with E * t / hbar counted in units of pi/2.
EvolutionPhase(energy, t) == CPhase((4 - ((energy * t) % 4)) % 4)

\* solve_schrodinger_equation_diagonal(initial_state, times, hamiltonian):
\* one state per entry of times, in the order of times; component k of the
\* state at time t is component k of the initial state times
\* exp(-i * E_k * t / hbar).
solve_schrodinger_equation_diagonal(initial_state, times, hamiltonian) ==
    Tuple([j \in 1..Len(times) |->
             StateVector(hamiltonian.basis,
                 Tuple([k \in 1..Len(initial_state.data) |->
                          CMul(initial_state.data[k],
                               EvolutionPhase(hamiltonian.data[k], times[j]))],
                       Len(initial_state.data)),
                 initial_state.norm2)],
          Len(times))

\* Variant of solve_schrodinger_equation: the states come back latest first.
solve_schrodinger_equation_reversed(system, config, initial_state, times) ==
    LET hamiltonian == get_hamiltonian(system, config)
        converted_initial ==
            convert_state_vector_to_basis(initial_state, hamiltonian.basis)
        reversed == Tuple([j \in 1..Len(times) |-> times[Len(times) + 1 - j]],
                          Len(times))
    IN  solve_schrodinger_equation_diagonal(converted_initial, reversed, hamiltonian)

solve_schrodinger_equation(system, config, initial_state, times) ==
    LET hamiltonian == get_hamiltonian(system, config)
        converted_initial ==
            convert_state_vector_to_basis(initial_state, hamiltonian.basis)
    IN  solve_schrodinger_equation_diagonal(converted_initial, times, hamiltonian)

\* --------------------------------------------------------------- operators
\* get_periodic_x_operator(basis, direction): exp(i q x) for the momentum
\* q = direction, held in `basis`.  On the points of the fundamental basis
\* (the momentum points that diagonalize the kinetic term) it moves the
\* amplitude at point x to point x + direction, cyclically.
get_periodic_x_operator(basis, direction) ==
    [basis |-> basis, direction |-> direction]

\* apply_operator_to_state(operator, state): the state is converted into the
\* operator's basis, the result is in the operator's basis.
apply_operator_to_state(operator, state) ==
    LET n == operator.basis.n
        fund == AsFundamentalData(convert_state_vector_to_basis(state, operator.basis))
        moved == Tuple([x \in 1..n |-> fund[((x - 1 - operator.direction) % n) + 1]], n)
    IN  convert_state_vector_to_basis(
            StateVector(FundamentalBasis(n), moved, state.norm2),
            operator.basis)

apply_operator_to_states(operator, states) ==
    Tuple([j \in 1..Len(states) |-> apply_operator_to_state(operator, states[j])],
          Len(states))

\* A complex value num / den; den = 0 is a non-finite value.
Value(re, im, den) == [re |-> re, im |-> im, den |-> den]
IsFinite(v) == v.den # 0

\* <state_0 | state_1>: conjugate-linear in state_0.  state_1 is taken in the
\* basis of state_0.  Both carry the same normalization.
InnerProduct(state_0, state_1) ==
    LET converted == convert_state_vector_to_basis(state_1, state_0.basis)
        z == CSumSeq([k \in 1..Len(state_0.data) |->
                        CMul(CConj(state_0.data[k]), converted.data[k])])
    IN  Value(z.re, z.im, state_0.norm2)

\* calculate_inner_products_elementwise(state_0, state_1): per time.
calculate_inner_products_elementwise(states_0, states_1) ==
    Tuple([j \in 1..Len(states_0) |-> InnerProduct(states_0[j], states_1[j])],
          Len(states_0))

\* --------------------------------------------------------------------- ISF
\* Variant of get_isf: the two arguments of the inner product exchanged.
get_isf_swapped(system, config, initial_state, times, direction) ==
    LET operator == get_periodic_x_operator(initial_state.basis, direction)
        state_evolved ==
            solve_schrodinger_equation(system, config, initial_state, times)
        state_evolved_scattered == apply_operator_to_states(operator, state_evolved)
        state_scattered == apply_operator_to_state(operator, initial_state)
        state_scattered_evolved ==
            solve_schrodinger_equation(system, config, state_scattered, times)
    IN  calculate_inner_products_elementwise(state_evolved_scattered,
                                             state_scattered_evolved)

get_isf(system, config, initial_state, times, direction) ==
    LET operator == get_periodic_x_operator(initial_state.basis, direction)
        state_evolved ==
            solve_schrodinger_equation(system, config, initial_state, times)
        state_evolved_scattered == apply_operator_to_states(operator, state_evolved)
        state_scattered == apply_operator_to_state(operator, initial_state)
        state_scattered_evolved ==
            solve_schrodinger_equation(system, config, state_scattered, times)
    IN  calculate_inner_products_elementwise(state_scattered_evolved,
                                             state_evolved_scattered)

\* Variant of get_isf_from_hamiltonian: the second evolution starts from
\* converted_initial instead of converted_scattered.
get_isf_from_hamiltonian_same_start(hamiltonian, operator, initial_state, times) ==
    LET converted_initial ==
            convert_state_vector_to_basis(initial_state, hamiltonian.basis)
        state_evolved ==
            solve_schrodinger_equation_diagonal(converted_initial, times, hamiltonian)
        state_evolved_scattered == apply_operator_to_states(operator, state_evolved)
        state_scattered_evolved ==
            solve_schrodinger_equation_diagonal(converted_initial, times, hamiltonian)
    IN  calculate_inner_products_elementwise(state_scattered_evolved,
                                             state_evolved_scattered)

get_isf_from_hamiltonian(hamiltonian, operator, initial_state, times) ==
    LET converted_initial ==
            convert_state_vector_to_basis(initial_state, hamiltonian.basis)
        state_evolved ==
            solve_schrodinger_equation_diagonal(converted_initial, times, hamiltonian)
        state_evolved_scattered == apply_operator_to_states(operator, state_evolved)
        state_scattered == apply_operator_to_state(operator, initial_state)
        converted_scattered ==
            convert_state_vector_to_basis(state_scattered, hamiltonian.basis)
        state_scattered_evolved ==
            solve_schrodinger_equation_diagonal(converted_scattered, times, hamiltonian)
    IN  calculate_inner_products_elementwise(state_scattered_evolved,
                                             state_evolved_scattered)

\* ---------------------------------------------------------- Boltzmann state
\* Temperatures the model draws.  The energy unit is 2 * k * ln 4 kelvin, so
\* that exp(-E / (2 * k * T)) = 4^(-E / T) is an exact rational for T = 1
\* and T = 2.  T = 0 is the caller passing temperature=0.
Temperatures == {0, 1, 2}

\* A real rational num / den; den = 0 is a non-finite value.
Rational(num, den) == [num |-> num, den |-> den]

\* np.exp(-E / (2 * k * temperature)) for one eigenvalue E >= 0.  With
\* temperature = 0 numpy divides by zero without raising: -E / 0.0 is -inf
\* for E > 0 (exp gives 0.0) and nan for E = 0 (exp gives nan).
BoltzmannFactor(energy, temperature) ==
    IF temperature = 0
    THEN (IF energy = 0 THEN Rational(0, 0) ELSE Rational(0, 1))
    ELSE Rational(1, Pow(2, (2 * energy) \div temperature))

\* Variant of boltzmann_distribution: exp(-E / (4 * k * T)), the population
\* taken at twice the temperature.
boltzmann_distribution_double_temperature(hamiltonian, temperature) ==
    Tuple([k \in 1..Len(hamiltonian.data) |->
             BoltzmannFactor(hamiltonian.data[k], 2 * temperature)],
          Len(hamiltonian.data))

boltzmann_distribution(hamiltonian, temperature) ==
    Tuple([k \in 1..Len(hamiltonian.data) |->
             BoltzmannFactor(hamiltonian.data[k], temperature)],
          Len(hamiltonian.data))

\* The distribution over one common denominator.
RECURSIVE MaxSeq(_)
MaxSeq(s) ==
    IF s = <<>> THEN 1
    ELSE IF Head(s) > MaxSeq(Tail(s)) THEN Head(s) ELSE MaxSeq(Tail(s))
CommonDen(dist) == MaxSeq([k \in 1..Len(dist) |-> dist[k].den])
Numerators(dist) ==
    LET common == CommonDen(dist)
    IN  Tuple([k \in 1..Len(dist) |-> dist[k].num * (common \div dist[k].den)],
              Len(dist))
AllFinite(dist) == \A k \in 1..Len(dist) : dist[k].den # 0

\* normalization = np.sqrt(sum(np.square(boltzmann_distribution))), squared:
\* a rational over CommonDen(dist)^2; non-finite when an entry is.
normalization2(dist) ==
    IF AllFinite(dist)
    THEN LET a == Numerators(dist)
         IN  Rational(SumSeq([k \in 1..Len(dist) |-> a[k] * a[k]]),
                      CommonDen(dist) * CommonDen(dist))
    ELSE Rational(0, 0)

\* boltzmann_distribution * phase / normalization.  With the distribution
\* a_k / L and normalization^2 = S / M the amplitudes are
\* phase_k * a_k / sqrt(S * L^2 / M); a zero or non-finite normalization
\* makes every amplitude non-finite (norm2 = 0).
NormalizedState(basis, dist, phase, norm) ==
    StateVector(basis,
        LET a == IF AllFinite(dist) THEN Numerators(dist)
                 ELSE [k \in 1..Len(dist) |-> 0]
        IN  Tuple([k \in 1..Len(dist) |-> CMul(C(a[k], 0), CPhase(phase[k]))],
                  Len(dist)),
        IF norm.den = 0 \/ norm.num = 0 THEN 0
        ELSE (norm.num * CommonDen(dist) * CommonDen(dist)) \div norm.den)

\* get_random_boltzmann_state; random_phase is the draw of
\* np.random.rand(len(hamiltonian["data"])), one phase per eigencomponent.
get_random_boltzmann_state(system, config, temperature, random_phase) ==
    LET hamiltonian == get_hamiltonian(system, config)
        dist == boltzmann_distribution(hamiltonian, temperature)
        normalization == normalization2(dist)
    IN  NormalizedState(hamiltonian.basis, dist, random_phase, normalization)

get_boltzmann_state(system, config, temperature, phase) ==
    LET hamiltonian == get_hamiltonian(system, config)
        dist == boltzmann_distribution(hamiltonian, temperature)
        normalization == normalization2(dist)
    IN  NormalizedState(hamiltonian.basis, dist,
                        [k \in 1..Len(dist) |-> phase], normalization)

\* ---------------------------------------------------------- ensemble average
\* np.zeros(times.n, dtype=np.complex128)
zeros(n) == Tuple([k \in 1..n |-> Value(0, 0, 1)], n)

\* a + b on complex values; a non-finite operand gives a non-finite sum.
VAdd(a, b) ==
    IF a.den = 0 \/ b.den = 0 THEN Value(0, 0, 0)
    ELSE IF a.den = b.den THEN Value(a.re + b.re, a.im + b.im, a.den)
    ELSE Value(a.re * b.den + b.re * a.den, a.im * b.den + b.im * a.den,
               a.den * b.den)

\* Variant of accumulate: `=` in place of `+=`.
accumulate_overwrite(isf_data, isf) == isf

\* isf_data += get_isf_from_hamiltonian(...)["data"]
accumulate(isf_data, isf) ==
    Tuple([k \in 1..Len(isf_data) |-> VAdd(isf_data[k], isf[k])], Len(isf_data))

\* isf_data = isf_data / n: numpy divides by n = 0 without raising and the
\* quotient is non-finite.
average(isf_data, n) ==
    Tuple([k \in 1..Len(isf_data) |->
             Value(isf_data[k].re, isf_data[k].im, isf_data[k].den * n)],
          Len(isf_data))

\* The calls of get_hamiltonian one run of get_random_boltzmann_state makes.
random_boltzmann_state_builds == 1

\* ------------------------------------------------------------------- state
VARIABLES
    system,               \* the PeriodicSystem in use
    config,               \* the PeriodicSystemConfig object, NoConfig before construction
    pc,                   \* "idle", or the position inside get_average_boltzmann_isf
    fn,                   \* the function called last
    args,                 \* its arguments
    ret,                  \* its return value
    i,                    \* get_average_boltzmann_isf: samples completed (_i)
    isf_data,             \* get_average_boltzmann_isf: the accumulator
    hamiltonian,          \* get_average_boltzmann_isf: local hamiltonian
    operator,             \* get_average_boltzmann_isf: local operator
    samples,              \* history: the ISF data of each completed sample
    hamiltonian_builds,   \* history: calls of get_hamiltonian in this call
    operator_builds,      \* history: calls of get_periodic_x_operator in this call
    rng,                  \* values taken from np.random's global generator in this call
    acc_writers,          \* history: samples that read-modify-wrote isf_data
    rng_users             \* history: samples that advanced the global generator

vars == <<system, config, pc, fn, args, ret, i, isf_data, hamiltonian, operator,
          samples, hamiltonian_builds, operator_builds, rng, acc_writers,
          rng_users>>

avg_vars == <<i, isf_data, hamiltonian, operator, samples, hamiltonian_builds,
              operator_builds, rng, acc_writers, rng_users>>

NoValue == <<>>

AvgReset ==
    /\ i = 0
    /\ isf_data = <<>>
    /\ hamiltonian = NoValue
    /\ operator = NoValue
    /\ samples = <<>>
    /\ hamiltonian_builds = 0
    /\ operator_builds = 0
    /\ rng = 0
    /\ acc_writers = {}
    /\ rng_users = {}

Init ==
    /\ system \in Systems
    /\ config = NoConfig
    /\ pc = "idle"
    /\ fn = "none"
    /\ args = NoValue
    /\ ret = NoValue
    /\ AvgReset

\* ------------------------------------------------------------------ inputs
\* Time axes: any sequence of up to MaxTimes times out of TimeValues, the
\* empty one, repeated, decreasing and unevenly spaced ones included.
TimeValues == {0, 1}
RECURSIVE SeqsUpTo(_, _)
SeqsUpTo(S, n) ==
    IF n = 0 THEN {<<>>}
    ELSE SeqsUpTo(S, n - 1)
           \cup {Append(q, x) : q \in {r \in SeqsUpTo(S, n - 1) : Len(r) = n - 1}, x \in S}
TimeAxes == SeqsUpTo(TimeValues, MaxTimes)

\* The time axes of the ensemble averages: one of each length 0..MaxTimes,
\* the times 0, 1, 3, 0, 1, 3, ...
AverageTimeAxes ==
    {Tuple([k \in 1..m |-> IF k % 3 = 1 THEN 0 ELSE IF k % 3 = 2 THEN 1 ELSE 3], m) :
        m \in 0..MaxTimes}

Directions == {1, 2}

\* Initial states: 1 at point a, plus nothing or 1 or i at the next point,
\* in the basis given.
InitialData(m) ==
    {Tuple([x \in 1..m |-> CAdd(IF x = a THEN COne ELSE CZero,
                                IF x = (a % m) + 1 THEN w ELSE CZero)], m) :
        a \in 1..m, w \in {CZero, COne, C(0, 1)}}
InitialStates(sys, cfg) ==
    LET eig == get_hamiltonian(sys, cfg).basis
        fund == FundamentalBasis(cfg.shape * cfg.resolution)
    IN  {StateVector(eig, d, 1) : d \in InitialData(BasisSize(eig))}
          \cup {StateVector(fund, d, 1) : d \in InitialData(BasisSize(fund))}

\* ----------------------------------------------------------------- actions
\* config = PeriodicSystemConfig(shape, resolution, n_bands)
Construct ==
    /\ pc = "idle"
    /\ fn = "none"
    /\ \E shape \in 0..MaxShape, resolution \in 0..MaxResolution,
          n_bands \in 0..(MaxResolution + 1) :
          config' = PeriodicSystemConfig(shape, resolution, n_bands)
    /\ UNCHANGED <<system, pc, fn, args, ret, avg_vars>>

\* The caller drops the value the last call returned.  The functions keep
\* nothing between calls, so the next call starts from here.
Release ==
    /\ pc = "idle"
    /\ fn # "none"
    /\ fn' = "none"
    /\ args' = NoValue
    /\ ret' = NoValue
    /\ UNCHANGED <<system, config, pc, avg_vars>>

\* The library calls below are taken on the configurations the library is
\* defined on.
Callable == pc = "idle" /\ fn = "none" /\ ValidConfig(config)

GetHamiltonian ==
    /\ Callable
    /\ fn' = "get_hamiltonian"
    /\ args' = NoValue
    /\ ret' = get_hamiltonian(system, config)
    /\ UNCHANGED <<system, config, pc, avg_vars>>

Solve ==
    /\ Callable
    /\ \E initial_state \in InitialStates(system, config), times \in TimeAxes :
          /\ args' = [initial_state |-> initial_state, times |-> times]
          /\ ret' = solve_schrodinger_equation(system, config, initial_state, times)
    /\ fn' = "solve_schrodinger_equation"
    /\ UNCHANGED <<system, config, pc, avg_vars>>

GetIsf ==
    /\ Callable
    /\ \E initial_state \in InitialStates(system, config), times \in TimeAxes,
          direction \in Directions :
          /\ args' = [initial_state |-> initial_state, times |-> times,
                      direction |-> direction]
          /\ ret' = get_isf(system, config, initial_state, times, direction)
    /\ fn' = "get_isf"
    /\ UNCHANGED <<system, config, pc, avg_vars>>

GetBoltzmannState ==
    /\ Callable
    /\ \E temperature \in Temperatures, phase \in Phases :
          /\ args' = [temperature |-> temperature, phase |-> phase]
          /\ ret' = get_boltzmann_state(system, config, temperature, phase)
    /\ fn' = "get_boltzmann_state"
    /\ UNCHANGED <<system, config, pc, avg_vars>>

GetRandomBoltzmannState ==
    /\ Callable
    /\ config.n_bands * config.shape <= MaxSampleDim
    /\ \E temperature \in Temperatures,
          random_phase \in [1..(config.n_bands * config.shape) -> Phases] :
          /\ args' = [temperature |-> temperature]
          /\ ret' = get_random_boltzmann_state(system, config, temperature,
                                               random_phase)
    /\ fn' = "get_random_boltzmann_state"
    /\ UNCHANGED <<system, config, pc, avg_vars>>

Next ==
    \/ Construct
    \/ Release
    \/ GetHamiltonian
    \/ Solve
    \/ GetIsf
    \/ GetBoltzmannState
    \/ GetRandomBoltzmannState

Spec == Init /\ [][Next]_vars

\* --------------------------------------------- get_average_boltzmann_isf
\* isf_data = np.zeros(times.n); hamiltonian = get_hamiltonian(system, config);
\* operator = get_periodic_x_operator(hamiltonian["basis"][0], direction)
AvgBegin ==
    /\ Callable
    /\ config.n_bands * config.shape <= MaxSampleDim
    /\ \E times \in AverageTimeAxes, direction \in Directions,
          temperature \in Temperatures, n \in 0..MaxN :
          /\ args' = [times |-> times, direction |-> direction,
                      temperature |-> temperature, n |-> n]
          /\ isf_data' = zeros(Len(times))
          /\ operator' = get_periodic_x_operator(
                             get_hamiltonian(system, config).basis, direction)
    /\ hamiltonian' = get_hamiltonian(system, config)
    /\ hamiltonian_builds' = 1
    /\ operator_builds' = 1
    /\ fn' = "get_average_boltzmann_isf"
    /\ ret' = NoValue
    /\ i' = 0
    /\ samples' = <<>>
    /\ rng' = 0
    /\ acc_writers' = {}
    /\ rng_users' = {}
    /\ pc' = "loop"
    /\ UNCHANGED <<system, config>>

\* Variant of AvgSample: every sample writes a result slot of its own and
\* leaves the accumulator alone.
AvgSampleOwnSlot ==
    /\ pc = "loop"
    /\ i < args.n
    /\ \E random_phase \in [1..(config.n_bands * config.shape) -> Phases] :
          LET sample == get_random_boltzmann_state(system, config,
                                                   args.temperature, random_phase)
              isf == get_isf_from_hamiltonian(hamiltonian, operator, sample,
                                              args.times)
          IN  samples' = Append(samples, isf)
    /\ hamiltonian_builds' = hamiltonian_builds + random_boltzmann_state_builds
    /\ rng' = rng + config.n_bands * config.shape
    /\ rng_users' = rng_users \cup {i + 1}
    /\ i' = i + 1
    /\ UNCHANGED <<system, config, pc, fn, args, ret, hamiltonian, operator,
                   operator_builds, isf_data, acc_writers>>

\* One iteration of `for _i in range(n)`.  The argument
\* get_random_boltzmann_state(system, config, temperature) is evaluated
\* first: it builds a Hamiltonian of its own and takes
\* len(hamiltonian["data"]) values from the global generator.  Then
\* isf_data += get_isf_from_hamiltonian(hamiltonian, operator, <state>, times)["data"]
AvgSample ==
    /\ pc = "loop"
    /\ i < args.n
    /\ \E random_phase \in [1..(config.n_bands * config.shape) -> Phases] :
          LET sample == get_random_boltzmann_state(system, config,
                                                   args.temperature, random_phase)
              isf == get_isf_from_hamiltonian(hamiltonian, operator, sample,
                                              args.times)
          IN  /\ isf_data' = accumulate(isf_data, isf)
              /\ samples' = Append(samples, isf)
    /\ hamiltonian_builds' = hamiltonian_builds + random_boltzmann_state_builds
    /\ rng' = rng + config.n_bands * config.shape
    /\ rng_users' = rng_users \cup {i + 1}
    /\ acc_writers' = acc_writers \cup {i + 1}
    /\ i' = i + 1
    /\ UNCHANGED <<system, config, pc, fn, args, ret, hamiltonian, operator,
                   operator_builds>>

\* isf_data = isf_data / n; return {"data": isf_data, "basis": times}
AvgReturn ==
    /\ pc = "loop"
    /\ i = args.n
    /\ ret' = [data |-> average(isf_data, args.n), basis |-> args.times]
    /\ pc' = "idle"
    /\ UNCHANGED <<system, config, fn, args, avg_vars>>

\* The caller drops the result of get_average_boltzmann_isf; the frame of the
\* call is gone.
AvgRelease ==
    /\ pc = "idle"
    /\ fn = "get_average_boltzmann_isf"
    /\ fn' = "none"
    /\ args' = NoValue
    /\ ret' = NoValue
    /\ i' = 0
    /\ isf_data' = <<>>
    /\ hamiltonian' = NoValue
    /\ operator' = NoValue
    /\ samples' = <<>>
    /\ hamiltonian_builds' = 0
    /\ operator_builds' = 0
    /\ rng' = 0
    /\ acc_writers' = {}
    /\ rng_users' = {}
    /\ UNCHANGED <<system, config, pc>>

NextAverage ==
    \/ Construct
    \/ AvgBegin
    \/ AvgSample
    \/ AvgReturn
    \/ AvgRelease

SpecAverage == Init /\ [][NextAverage]_vars

\* ================================================================ properties
Returned(f) == pc = "idle" /\ fn = f

Norm2(data) == SumSeq([k \in 1..Len(data) |-> CAbs2(data[k])])

\* a = b for two complex values.
VEq(a, b) ==
    IF a.den = 0 \/ b.den = 0 THEN a.den = 0 /\ b.den = 0
    ELSE a.re * b.den = b.re * a.den /\ a.im * b.den = b.im * a.den

\* ----------------------------------------------------------------------- C1
\* The ISF values of the completed samples at time index k.
Column(k) == [s \in 1..Len(samples) |-> samples[s][k]]

\* v is the arithmetic mean of the n values col, which share a denominator.
IsMeanOf(v, col, n) ==
    IF \E s \in 1..n : col[s].den = 0 THEN v.den = 0
    ELSE /\ \A s \in 1..n : col[s].den = col[1].den
         /\ v.den # 0
         /\ v.re * col[1].den * n = SumSeq([s \in 1..n |-> col[s].re]) * v.den
         /\ v.im * col[1].den * n = SumSeq([s \in 1..n |-> col[s].im]) * v.den

\* C1: for n >= 1, get_average_boltzmann_isf returns one value per entry of
\* the caller's time axis, on that axis, and the k-th value is the sum of the
\* k-th values of the n per-sample ISF sequences divided by n; with n = 1 it
\* is the ISF of the single sample.
C1_AverageIsMean ==
    (Returned("get_average_boltzmann_isf") /\ args.n >= 1) =>
        /\ ret.basis = args.times
        /\ Len(ret.data) = Len(args.times)
        /\ Len(samples) = args.n
        /\ \A s \in 1..args.n : Len(samples[s]) = Len(args.times)
        /\ \A k \in 1..Len(args.times) : IsMeanOf(ret.data[k], Column(k), args.n)
        /\ args.n = 1 =>
              \A k \in 1..Len(args.times) : VEq(ret.data[k], samples[1][k])

\* An average of two or more samples over two or more times, with a finite
\* non-zero value in it.
C1_Witness ==
    /\ Returned("get_average_boltzmann_isf")
    /\ args.n >= 2
    /\ Len(args.times) >= 2
    /\ \E k \in 1..Len(args.times) :
          ret.data[k].den # 0 /\ (ret.data[k].re # 0 \/ ret.data[k].im # 0)

\* ----------------------------------------------------------------------- C2
\* The state at the single time t, and the scattered state, for the call
\* get_isf(system, config, args.initial_state, args.times, args.direction).
EvolveTo(psi, t) == solve_schrodinger_equation(system, config, psi, <<t>>)[1]
Scatter(psi) ==
    apply_operator_to_state(
        get_periodic_x_operator(args.initial_state.basis, args.direction), psi)

\* C2: get_isf returns, for each time t, the inner product of the bra
\* "initial state scattered once, then evolved to t" with the ket "initial
\* state evolved to t, then scattered".
C2_IsfOrder ==
    Returned("get_isf") =>
        /\ Len(ret) = Len(args.times)
        /\ \A j \in 1..Len(args.times) :
              ret[j] = InnerProduct(
                           EvolveTo(Scatter(args.initial_state), args.times[j]),
                           Scatter(EvolveTo(args.initial_state, args.times[j])))

\* A returned ISF in which the order matters: at some time it differs from
\* the value with the operator applied after the evolution in both branches,
\* and from the value with bra and ket exchanged.
C2_Witness ==
    /\ Returned("get_isf")
    /\ \E j \in 1..Len(args.times) :
          /\ ret[j] # InnerProduct(
                          Scatter(EvolveTo(args.initial_state, args.times[j])),
                          Scatter(EvolveTo(args.initial_state, args.times[j])))
          /\ ret[j] # InnerProduct(
                          Scatter(EvolveTo(args.initial_state, args.times[j])),
                          EvolveTo(Scatter(args.initial_state), args.times[j]))

\* ----------------------------------------------------------------------- C3
\* C3: solve_schrodinger_equation returns one state per requested time, in
\* the order of the times; each is the initial state (in the eigenbasis)
\* with every component multiplied by the unit-modulus phase of its
\* eigenvalue at that time, and so has the norm of that initial state.
C3_SolvePreservesNorm ==
    Returned("solve_schrodinger_equation") =>
        LET h == get_hamiltonian(system, config)
            initial == convert_state_vector_to_basis(args.initial_state, h.basis)
        IN  /\ Len(ret) = Len(args.times)
            /\ \A j \in 1..Len(args.times) :
                  /\ ret[j].basis = h.basis
                  /\ ret[j].norm2 = initial.norm2
                  /\ Len(ret[j].data) = Len(initial.data)
                  /\ Norm2(ret[j].data) = Norm2(initial.data)
                  /\ \A k \in 1..Len(initial.data) :
                        /\ CAbs2(EvolutionPhase(h.data[k], args.times[j])) = 1
                        /\ ret[j].data[k] =
                              CMul(initial.data[k],
                                   EvolutionPhase(h.data[k], args.times[j]))

\* A solution over three times that are neither increasing nor evenly
\* spaced, whose states differ from one another and have a non-zero norm.
C3_Witness ==
    /\ Returned("solve_schrodinger_equation")
    /\ Len(args.times) = 3
    /\ args.times[1] > args.times[2]
    /\ args.times[3] - args.times[2] # args.times[2] - args.times[1]
    /\ ret[1] # ret[2]
    /\ Norm2(ret[1].data) > 0

\* The empty time axis: no state is returned.
C3_WitnessEmpty == Returned("solve_schrodinger_equation") /\ args.times = <<>>

\* ----------------------------------------------------------------------- C4
\* exp(E / (k * T)), the inverse of the Boltzmann population: 16^(E / T).
InversePopulation(energy, temperature) == Pow(4, (2 * energy) \div temperature)

\* C4: for T > 0 the state of get_boltzmann_state and of
\* get_random_boltzmann_state has unit norm, |c_i|^2 * exp(E_i / (k T)) is
\* the same positive number for every component i, and the magnitudes are
\* those of get_boltzmann_state with phase 0, whatever the phases.
C4_BoltzmannState ==
    ((Returned("get_boltzmann_state") \/ Returned("get_random_boltzmann_state"))
        /\ args.temperature > 0) =>
        LET energy == get_hamiltonian(system, config).data
            reference == get_boltzmann_state(system, config, args.temperature, 0)
        IN  /\ Len(ret.data) = Len(energy)
            /\ ret.norm2 > 0
            /\ Norm2(ret.data) = ret.norm2
            /\ \A a \in 1..Len(energy) : CAbs2(ret.data[a]) > 0
            /\ \A a \in 1..Len(energy), b \in 1..Len(energy) :
                  CAbs2(ret.data[a]) * InversePopulation(energy[a], args.temperature)
                    = CAbs2(ret.data[b]) * InversePopulation(energy[b], args.temperature)
            /\ ret.norm2 = reference.norm2
            /\ \A a \in 1..Len(energy) :
                  CAbs2(ret.data[a]) = CAbs2(reference.data[a])

\* A random Boltzmann state at T > 0 over unequal eigenvalues, drawn with
\* unequal phases.
C4_Witness ==
    /\ Returned("get_random_boltzmann_state")
    /\ args.temperature > 0
    /\ \E a \in 1..Len(ret.data), b \in 1..Len(ret.data) :
          /\ CAbs2(ret.data[a]) # CAbs2(ret.data[b])
          /\ ret.data[a].im # 0
          /\ ret.data[b].re # 0

\* ----------------------------------------------------------------------- C5
\* C5: a configuration whose n_bands exceeds its resolution, or with a
\* non-positive shape or resolution, is refused at construction: no such
\* configuration object exists.
C5_InvalidConfigRefused ==
    config # NoConfig =>
        /\ config.n_bands <= config.resolution
        /\ config.shape > 0
        /\ config.resolution > 0

\* ----------------------------------------------------------------------- C6
\* C6: a call ends in NumericalFailure rather than return a non-finite value:
\* no value returned by get_average_boltzmann_isf is non-finite.
C6_NoNonFiniteResult ==
    Returned("get_average_boltzmann_isf") =>
        \A k \in 1..Len(ret.data) : IsFinite(ret.data[k])

\* ----------------------------------------------------------------------- C7
\* C7: during one call of get_average_boltzmann_isf the Hamiltonian is built
\* exactly once and the scattering operator exactly once.
C7_BuiltOnce ==
    Returned("get_average_boltzmann_isf") =>
        hamiltonian_builds = 1 /\ operator_builds = 1

IsNthLowest(v, d, b) ==
    /\ \E r \in 1..Len(d) : d[r] = v
    /\ Cardinality({r \in 1..Len(d) : d[r] < v}) < b
    /\ Cardinality({r \in 1..Len(d) : d[r] <= v}) >= b

C10_IsfFromHamiltonian ==
    Returned("get_isf") =>
        ret = get_isf_from_hamiltonian(
                  get_hamiltonian(system, config),
                  get_periodic_x_operator(args.initial_state.basis, args.direction),
                  args.initial_state, args.times)

\* An ISF of an initial state given in the fundamental basis, which has more
\* points than the eigenbasis has vectors, over two or more times, not all
\* values equal.
C10_Witness ==
    /\ Returned("get_isf")
    /\ args.initial_state.basis.kind = "fundamental"
    /\ Len(get_hamiltonian(system, config).data) < args.initial_state.basis.n
    /\ Len(args.times) >= 2
    /\ \E j \in 1..Len(ret) : ret[j] # ret[1]

==========================================================================
